---- MODULE Spec2Model ----
(***************************************************************************)
(* scripts/fetch-data.js of PelicanR/dollar-debasement: the fetch wrapper, *)
(* the provider adapters, the merge in main() and the document it writes.  *)
(* The source file holds two revisions of the script: lines 1-181 (GoldAPI *)
(* spot prices, CoinCap bitcoin history) and lines 183-370 (metals.live    *)
(* and Kraken).  The variable rev says which revision runs.                *)
(***************************************************************************)
EXTENDS Integers, Sequences, FiniteSets, TLC

(***************************************************************************)
(* Bounds of the model.                                                    *)
(***************************************************************************)
\* longest provider list enumerated element by element
MaxRows == 2
\* how far the generated long lists reach past a retention window
MaxOver == 1

(***************************************************************************)
(* JavaScript values.  Every value is a record tagged by t, so that values *)
(* of different JS types can be compared.                                  *)
(*   date strings "YYYY-MM-DD" are kept as the number YYYYMMDD, timestamps *)
(*   "YYYY-MM-DDThh:.." as YYYYMMDDhh: fixed-width decimal fields order    *)
(*   lexicographically exactly as these numbers order, and slice(0,n) cuts *)
(*   trailing fields off.  Other strings are sequences of characters.      *)
(***************************************************************************)
Null      == [t |-> "null"]
Undefined == [t |-> "undefined"]
NaN       == [t |-> "nan"]
Infinity  == [t |-> "inf"]
NegInfinity == [t |-> "-inf"]
Num(n)    == [t |-> "num", v |-> n]
Str(s)    == [t |-> "str", v |-> s]
DateStr(n) == [t |-> "date", v |-> n]
DateTimeStr(n) == [t |-> "datetime", v |-> n]
MonthStr(n) == [t |-> "month", v |-> n]
Tag(s)    == [t |-> "tag", v |-> s]
Arr(s)    == [t |-> "arr", v |-> s]
Obj(r)    == [t |-> "obj", v |-> r]
\* the outcome of a call that threw (a rejected promise)
Raised    == [t |-> "raised"]

\* ToBoolean
Truthy(x) ==
    CASE x.t \in {"null", "undefined", "nan"} -> FALSE
      [] x.t = "num" -> x.v # 0
      [] x.t = "str" -> Len(x.v) > 0
      [] OTHER -> TRUE

\* x?.k on an object; undefined when the property is missing, and for the
\* primitives the model feeds to it (which carry none of the properties read)
Get(x, k) ==
    IF x.t = "obj" /\ k \in DOMAIN x.v THEN x.v[k] ELSE Undefined

\* a || b
Or(a, b) == IF Truthy(a) THEN a ELSE b

\* a ?? b
Coalesce(a, b) == IF a.t \in {"null", "undefined"} THEN b ELSE a

\* x.length of an array or string, undefined otherwise
LengthOf(x) ==
    IF x.t \in {"arr", "str"} THEN Num(Len(x.v)) ELSE Undefined

\* a < b on two strings; false when either side is undefined
StrLess(a, b) ==
    IF a.t \in {"date", "datetime", "month"} /\ a.t = b.t THEN a.v < b.v ELSE FALSE

\* Array.prototype.slice(-n)
SliceLast(s, n) ==
    IF Len(s) <= n THEN s ELSE SubSeq(s, Len(s) - n + 1, Len(s))

\* the sequence f written out element by element (the same value: TLC then
\* holds it as a tuple and does not compute an element again at every use)
AsTuple(f) == f \o <<>>

\* Array.prototype.filter: the elements of s at the indices in keep, in order
SelectIdx(s, keep) ==
    LET pos == AsTuple([i \in 1..Len(s) |-> Cardinality({k \in keep : k <= i})])
    IN  AsTuple([r \in 1..Cardinality(keep) |-> s[CHOOSE i \in keep : pos[i] = r]])

\* Array.prototype.reverse
Reverse(s) == AsTuple([i \in 1..Len(s) |-> s[Len(s) + 1 - i]])

(***************************************************************************)
(* parseFloat: leading blanks, an optional sign, then "Infinity" or the    *)
(* longest run of decimal digits; NaN when no digit follows.  The sampled  *)
(* inputs carry no fraction digits, so numbers stay integers.              *)
(***************************************************************************)
Digits == <<"0", "1", "2", "3", "4", "5", "6", "7", "8", "9">>
IsDigit(c) == \E d \in 1..10 : Digits[d] = c
DigitVal(c) == (CHOOSE d \in 1..10 : Digits[d] = c) - 1

\* the decimal text of a natural number
RECURSIVE CharsOf(_)
CharsOf(n) ==
    IF n < 10 THEN <<Digits[n + 1]>> ELSE CharsOf(n \div 10) \o <<Digits[(n % 10) + 1]>>

RECURSIVE SkipBlanks(_)
SkipBlanks(s) ==
    IF Len(s) > 0 /\ s[1] = " " THEN SkipBlanks(Tail(s)) ELSE s

RECURSIVE DigitRun(_, _)
DigitRun(s, i) ==
    IF i <= Len(s) /\ IsDigit(s[i]) THEN DigitRun(s, i + 1) ELSE i - 1

RECURSIVE DecimalOf(_, _)
DecimalOf(s, n) ==
    IF n = 0 THEN 0 ELSE 10 * DecimalOf(s, n - 1) + DigitVal(s[n])

InfinityWord == <<"I", "n", "f", "i", "n", "i", "t", "y">>

ParseChars(s0) ==
    LET s    == SkipBlanks(s0)
        sgn  == Len(s) > 0 /\ s[1] \in {"-", "+"}
        neg  == Len(s) > 0 /\ s[1] = "-"
        body == IF sgn THEN Tail(s) ELSE s
        n    == DigitRun(body, 1)
    IN  IF Len(body) >= 8 /\ SubSeq(body, 1, 8) = InfinityWord
        THEN (IF neg THEN NegInfinity ELSE Infinity)
        ELSE IF n = 0 THEN NaN
        ELSE Num((IF neg THEN -1 ELSE 1) * DecimalOf(body, n))

parseFloat(x) ==
    CASE x.t = "str" -> ParseChars(x.v)
      [] x.t \in {"num", "inf", "-inf"} -> x
      [] OTHER -> NaN

isNaN(x) == x.t = "nan"

\* x > 0 on the result of parseFloat
Positive(x) == (x.t = "num" /\ x.v > 0) \/ x.t = "inf"

\* Number.isFinite
Finite(x) == x.t = "num"

(***************************************************************************)
(* Array.prototype.sort((a, b) => a.date < b.date ? -1 : 1).  With all     *)
(* dates different the comparator is consistent and the result is the one  *)
(* ascending order.  On two equal dates it answers 1 both ways round; the  *)
(* order of such elements is then implementation-defined, so the sort has  *)
(* every date-ordered arrangement as a possible outcome.                   *)
(***************************************************************************)
DateOf(p) == Get(p, "date")

DistinctDates(s) ==
    \A i, k \in 1..Len(s) :
        i # k => (StrLess(DateOf(s[i]), DateOf(s[k])) \/ StrLess(DateOf(s[k]), DateOf(s[i])))

RankSort(s) ==
    LET rank == AsTuple([i \in 1..Len(s) |->
                    Cardinality({k \in 1..Len(s) : StrLess(DateOf(s[k]), DateOf(s[i]))}) + 1])
    IN  AsTuple([r \in 1..Len(s) |-> s[CHOOSE i \in 1..Len(s) : rank[i] = r]])

SortOutcomes(s) ==
    IF DistinctDates(s) THEN {RankSort(s)}
    ELSE LET n == Len(s)
             perms == {p \in [1..n -> 1..n] : \A i, k \in 1..n : i # k => p[i] # p[k]}
         IN  {AsTuple([i \in 1..n |-> s[p[i]]]) : p \in
                 {q \in perms : \A i, k \in 1..n :
                     i < k => ~StrLess(DateOf(s[q[k]]), DateOf(s[q[i]]))}}

(***************************************************************************)
(* Retention windows and the status range of r.ok.                         *)
(***************************************************************************)
\* btcHistory: .slice(-60)
BtcMonths == 60
\* main: goldHistAV?.slice(-300)
GoldHistKeep == 300
\* main: btcRaw?.slice(-60)
BtcKeep == 60
\* main: finalCPI / finalM2 / hpiRaw ?.slice(-80)
EconKeep == 80

(***************************************************************************)
(* get(url, label, headers): one request.  A response h is what the        *)
(* network delivers: net says whether fetch resolved, failed or ran into   *)
(* the 20 s AbortSignal; status and wellformed (does r.json() parse) and   *)
(* body (the decoded value) are read only when it resolved.  Everything    *)
(* between try and catch that throws ends in return null.                  *)
(***************************************************************************)
\* get without the test of j?.['Information']
getNoInformation(h) ==
    IF h.net # "ok" THEN Null
    ELSE IF ~(h.status \in 200..299) THEN Null
    ELSE IF ~h.wellformed THEN Null
    ELSE LET j == h.body
         IN  IF Truthy(Get(j, "Note")) THEN Null
             ELSE IF Truthy(Get(j, "Error Message")) THEN Null
             ELSE j

get(h) ==
    IF h.net # "ok" THEN Null
    ELSE IF ~(h.status \in 200..299) THEN Null
    ELSE IF ~h.wellformed THEN Null
    ELSE LET j == h.body
         IN  IF Truthy(Get(j, "Note")) \/ Truthy(Get(j, "Information")) THEN Null
             ELSE IF Truthy(Get(j, "Error Message")) THEN Null
             ELSE j

(***************************************************************************)
(* Spot price adapters.                                                    *)
(***************************************************************************)
\* revision 1: return j?.price ?? null
goldApiSpot(j) == Coalesce(Get(j, "price"), Null)

\* revision 2: if (!j?.price) return null; return parseFloat(j.price)
metalSpot(j) ==
    IF ~Truthy(Get(j, "price")) THEN Null ELSE parseFloat(Get(j, "price"))

\* c[i] of a candle or ticker array, zero-based as in the source
Index(c, i) ==
    IF c.t = "arr" /\ i + 1 <= Len(c.v) THEN c.v[i + 1] ELSE Undefined

\* revision 2.  Object.keys(..)[0]: the responses fed carry at most one pair
krakenBtcSpot(j) ==
    IF Truthy(LengthOf(Get(j, "error"))) THEN Null
    ELSE LET result == Or(Get(j, "result"), Obj(<<>>))
             keys   == IF result.t = "obj" THEN DOMAIN result.v ELSE {}
             tick   == IF keys = {} THEN Undefined
                       ELSE Get(result, CHOOSE k \in keys : TRUE)
             close  == parseFloat(Index(Get(tick, "c"), 0))
         IN  IF Positive(close) THEN close ELSE Null

(***************************************************************************)
(* avCommodity(fn, label): the set of values the call can resolve to (one  *)
(* value unless two rows carry the same date), or {Raised}.                *)
(***************************************************************************)
NoProps(x) == x.t \in {"null", "undefined"}

avCommodity(j) ==
    LET data == Get(j, "data")
    IN  IF ~Truthy(data) THEN {Null}
        ELSE IF data.t # "arr" THEN {Raised}
        ELSE IF \E i \in 1..Len(data.v) : NoProps(data.v[i]) THEN {Raised}
        ELSE LET mapped == AsTuple([i \in 1..Len(data.v) |->
                               Obj([date  |-> Get(data.v[i], "date"),
                                    value |-> parseFloat(Get(data.v[i], "value"))])])
                 keep   == {i \in 1..Len(mapped) :
                               ~isNaN(mapped[i].v.value) /\ Positive(mapped[i].v.value)}
             IN  {Arr(s) : s \in SortOutcomes(SelectIdx(mapped, keep))}

(***************************************************************************)
(* fredSeries(series, limit)                                               *)
(***************************************************************************)
MissingMark == Str(<<".">>)

fredSeries(j) ==
    LET obs == Get(j, "observations")
    IN  IF ~Truthy(obs) THEN Null
        ELSE IF obs.t # "arr" THEN Raised
        ELSE IF \E i \in 1..Len(obs.v) : NoProps(obs.v[i]) THEN Raised
        ELSE LET keep == {i \in 1..Len(obs.v) : Get(obs.v[i], "value") # MissingMark}
                 kept == SelectIdx(obs.v, keep)
             IN  Arr(Reverse(AsTuple([i \in 1..Len(kept) |->
                        Obj([date  |-> Get(kept[i], "date"),
                             value |-> parseFloat(Get(kept[i], "value"))])])))

(***************************************************************************)
(* btcHistory(), revision 1 (CoinCap).  pt.date is a timestamp string;     *)
(* slice(0, 7) is its month and slice(0, 10) its day.  monthly[mo] is      *)
(* overwritten by every point of the month, so the point listed last       *)
(* stays; Object.values lists the months in the order they first came up.  *)
(***************************************************************************)
\* s.slice(0, 7) and s.slice(0, 10) of a date or timestamp string
Slice7(d)  == MonthStr(IF d.t = "datetime" THEN d.v \div 10000 ELSE d.v \div 100)
Slice10(d) == DateStr(IF d.t = "datetime" THEN d.v \div 100 ELSE d.v)
HasSlice(d) == d.t \in {"date", "datetime"}

\* Object.values(monthly) after monthly[mo[i]] = val[i] for i = 1, 2, ..
MonthlyValues(mo, val) ==
    LET n     == Len(mo)
        first == {i \in 1..n : \A k \in 1..(i - 1) : mo[k] # mo[i]}
        last  == AsTuple([i \in 1..n |-> CHOOSE k \in i..n :
                             mo[k] = mo[i] /\ \A l \in (k + 1)..n : mo[l] # mo[i]])
        idx   == SelectIdx(AsTuple([i \in 1..n |-> i]), first)
    IN  AsTuple([i \in 1..Len(idx) |-> val[last[idx[i]]]])

\* the ascending sort of monthly values: one point a month, so no two dates
\* are equal and the sort has one outcome
SortMonthly(s) == CHOOSE r \in SortOutcomes(s) : TRUE

btcHistory(j) ==
    LET data == Get(j, "data")
    IN  IF ~Truthy(LengthOf(data)) THEN Null
        ELSE IF data.t # "arr" THEN Raised
        ELSE IF \E i \in 1..Len(data.v) :
                    NoProps(data.v[i]) \/ ~HasSlice(Get(data.v[i], "date"))
             THEN Raised
        ELSE LET mo  == AsTuple([i \in 1..Len(data.v) |-> Slice7(Get(data.v[i], "date"))])
                 val == AsTuple([i \in 1..Len(data.v) |->
                            Obj([date  |-> Slice10(Get(data.v[i], "date")),
                                 value |-> parseFloat(Get(data.v[i], "priceUsd"))])])
             IN  Arr(SliceLast(SortMonthly(MonthlyValues(mo, val)), BtcMonths))

(***************************************************************************)
(* btcHistory(), revision 2 (Kraken OHLC).  A candle is an array           *)
(* [time, open, high, low, close, ..]; time is in unix seconds.            *)
(***************************************************************************)
\* new Date(secs * 1000).toISOString().split('T')[0]: the civil date of a
\* count of days since 1970-01-01 (proleptic Gregorian calendar, UTC)
CivilFromDays(days) ==
    LET z   == days + 719468
        era == z \div 146097
        doe == z - era * 146097
        yoe == (doe - doe \div 1460 + doe \div 36524 - doe \div 146096) \div 365
        doy == doe - (365 * yoe + yoe \div 4 - yoe \div 100)
        mp  == (5 * doy + 2) \div 153
        d   == doy - (153 * mp + 2) \div 5 + 1
        m   == IF mp < 10 THEN mp + 3 ELSE mp - 9
        y   == yoe + era * 400 + (IF m <= 2 THEN 1 ELSE 0)
    IN  y * 10000 + m * 100 + d

UnixToDate(secs) == DateStr(CivilFromDays(secs \div 86400))

\* c[0] * 1000 is a valid time value.  The time of a candle is a JSON number,
\* null (which counts as 0) or missing (NaN: toISOString throws a RangeError)
ValidTime(x) == x.t \in {"num", "null"}
TimeOf(x) == IF x.t = "num" THEN x.v ELSE 0

btcHistoryKraken(j) ==
    LET result  == Get(j, "result")
        candles == Or(Get(result, "XXBTZUSD"), Get(result, "XBTUSD"))
    IN  IF ~Truthy(LengthOf(candles)) THEN Null
        ELSE IF candles.t # "arr" THEN Raised
        ELSE IF \E i \in 1..Len(candles.v) :
                    NoProps(candles.v[i]) \/ ~ValidTime(Index(candles.v[i], 0))
             THEN Raised
        ELSE LET date == AsTuple([i \in 1..Len(candles.v) |->
                             UnixToDate(TimeOf(Index(candles.v[i], 0)))])
                 mo   == AsTuple([i \in 1..Len(candles.v) |-> Slice7(date[i])])
                 val  == AsTuple([i \in 1..Len(candles.v) |->
                             Obj([date  |-> date[i],
                                  value |-> parseFloat(Index(candles.v[i], 4))])])
             IN  Arr(SliceLast(SortMonthly(MonthlyValues(mo, val)), BtcMonths))

(***************************************************************************)
(* dxy().  1 / undefined and Math.pow of NaN are NaN; toFixed is called on *)
(* 1 / EUR (always a number) and on JPY itself, which throws a TypeError   *)
(* unless JPY is a number.  Of the rounded product the model keeps that it *)
(* is a positive number when all six rates are positive numbers (97 stands *)
(* for it, the level the source's comment names), and otherwise whether it *)
(* is 0, Infinity or NaN.                                                  *)
(***************************************************************************)
Basket == {"EUR", "JPY", "GBP", "CAD", "SEK", "CHF"}

\* a factor Math.pow(rate or 1 / rate, exponent) of the product: a positive
\* rate gives a positive number; a rate of 0 (null counts as 0) gives 0 where
\* the rate enters with a positive power (EUR and GBP, inverted first, and
\* JPY) and Infinity where it enters with a negative one; a negative or
\* missing rate gives NaN
Factor(c, x) ==
    IF x.t = "num" /\ x.v > 0 THEN "pos"
    ELSE IF x.t = "null" \/ (x.t = "num" /\ x.v = 0)
         THEN (IF c \in {"EUR", "GBP", "JPY"} THEN "zero" ELSE "inf")
    ELSE "nan"

dxy(j) ==
    LET rates   == Get(j, "rates")
        factors == {Factor(c, Get(rates, c)) : c \in Basket}
        val     == IF "nan" \in factors \/ {"zero", "inf"} \subseteq factors THEN NaN
                   ELSE IF "zero" \in factors THEN Num(0)
                   ELSE IF "inf" \in factors THEN Infinity
                   ELSE Num(97)
    IN  IF ~Truthy(rates) THEN Null
        ELSE IF Get(rates, "JPY").t # "num" THEN Raised
        ELSE Obj([value |-> val, date |-> Get(j, "date")])

(***************************************************************************)
(* main(): the merge after the await.  r holds the settled values of the   *)
(* calls under the names main and getSpotPrices destructure them to:       *)
(* gold, silver, btc (the fields of spot), m2Raw, cpiRaw, hpiRaw,          *)
(* goldHistAV, btcHist, cpiAV, m2AV, dxyLive.  now is                      *)
(* new Date().toISOString().split('T')[0].                                 *)
(***************************************************************************)
Slots == {"gold", "silver", "btc", "m2Raw", "cpiRaw", "hpiRaw",
          "goldHistAV", "btcHist", "cpiAV", "m2AV", "dxyLive"}

\* x?.slice(-n)
OptSliceLast(x, n) == IF NoProps(x) THEN Undefined ELSE Arr(SliceLast(x.v, n))

GoldSilver(now, r) ==
    IF Truthy(r.gold) /\ Truthy(r.silver)
    THEN Obj([gold |-> r.gold, silver |-> r.silver, date |-> now])
    ELSE Null

\* a splice that appends the spot point and keeps every history point
BtcRawKeepAll(now, r) ==
    LET hist  == Or(r.btcHist, Null)
        spotPt == Obj([date |-> now, value |-> r.btc])
    IN  IF Truthy(hist) /\ Truthy(r.btc) THEN Arr(hist.v \o <<spotPt>>)
        ELSE IF Truthy(r.btc) THEN Arr(<<spotPt>>)
        ELSE hist

\* let btcRaw = btcHist || null, then the splice of today's spot price
BtcRaw(now, r) ==
    LET hist  == Or(r.btcHist, Null)
        spotPt == Obj([date |-> now, value |-> r.btc])
    IN  IF Truthy(hist) /\ Truthy(r.btc)
        THEN LET keep == {i \in 1..Len(hist.v) : StrLess(DateOf(hist.v[i]), now)}
             IN  Arr(SelectIdx(hist.v, keep) \o <<spotPt>>)
        ELSE IF Truthy(r.btc) THEN Arr(<<spotPt>>)
        ELSE hist

\* a selection that asks Alpha Vantage first
FinalCPIAvFirst(r) == Or(r.cpiAV, r.cpiRaw)

FinalCPI(r) == Or(r.cpiRaw, r.cpiAV)
FinalM2(r)  == Or(r.m2Raw, r.m2AV)

\* the tags of sources.gold and sources.btc in the two revisions
GoldTag(rv) == IF rv = "coincap" THEN Tag("goldapi") ELSE Tag("kraken")
BtcTag(rv)  == IF rv = "coincap" THEN Tag("coincap") ELSE Tag("kraken")

Sources(rv, now, r) ==
    Obj([gold |-> IF Truthy(GoldSilver(now, r)) THEN GoldTag(rv) ELSE Tag("fallback"),
         btc  |-> IF Truthy(BtcRaw(now, r)) THEN BtcTag(rv) ELSE Tag("fallback"),
         cpi  |-> IF Truthy(r.cpiRaw) THEN Tag("fred")
                  ELSE IF Truthy(r.cpiAV) THEN Tag("alpha_vantage") ELSE Tag("fallback"),
         m2   |-> IF Truthy(r.m2Raw) THEN Tag("fred")
                  ELSE IF Truthy(r.m2AV) THEN Tag("alpha_vantage") ELSE Tag("fallback"),
         hpi  |-> IF Truthy(r.hpiRaw) THEN Tag("fred") ELSE Tag("fallback"),
         dxy  |-> IF Truthy(r.dxyLive) THEN Tag("frankfurter") ELSE Tag("fallback")])

main(rv, now, r) ==
    Obj([fetchedAt  |-> now,
         goldSilver |-> GoldSilver(now, r),
         goldHist   |-> Or(OptSliceLast(r.goldHistAV, GoldHistKeep), Null),
         btcRaw     |-> OptSliceLast(BtcRaw(now, r), BtcKeep),
         cpiRaw     |-> OptSliceLast(FinalCPI(r), EconKeep),
         m2Raw      |-> OptSliceLast(FinalM2(r), EconKeep),
         hpiRaw     |-> OptSliceLast(r.hpiRaw, EconKeep),
         dxyLive    |-> r.dxyLive,
         sources    |-> Sources(rv, now, r)])

(***************************************************************************)
(* JSON.stringify(data, null, 2), kept as the value the written text       *)
(* parses back to: a property whose value is undefined is left out, an     *)
(* undefined array element and every non-finite number become null.        *)
(***************************************************************************)
RECURSIVE JSONstringify(_)
JSONstringify(x) ==
    CASE x.t = "obj" ->
           Obj([k \in {f \in DOMAIN x.v : x.v[f].t # "undefined"} |-> JSONstringify(x.v[k])])
      [] x.t = "arr" ->
           Arr(AsTuple([i \in 1..Len(x.v) |->
                   IF x.v[i].t = "undefined" THEN Null ELSE JSONstringify(x.v[i])]))
      [] x.t \in {"nan", "inf", "-inf"} -> Null
      [] OTHER -> x

(***************************************************************************)
(* State of one run of the script.                                         *)
(***************************************************************************)
VARIABLES
    rev,     \* the revision that runs: "coincap" (lines 1-181) or "kraken" (183-370)
    today,   \* the current UTC date
    resp,    \* per call: the response the network delivers
    got,     \* per call: what get() returned to the adapter
    res,     \* per call: the value the adapter's promise settled to
    pc,      \* "launch", "await", "done" (document written), "exit1" (process.exit(1))
    file     \* docs/data/data.json as written by this run

vars == <<rev, today, resp, got, res, pc, file>>

Pending == [t |-> "pending"]
NoFile  == [t |-> "nofile"]
NoResp  == [net |-> "none"]

Revisions == {"coincap", "kraken"}
Today == DateStr(20240315)

(***************************************************************************)
(* Responses.                                                              *)
(***************************************************************************)
NetError   == [net |-> "error"]
TimedOut   == [net |-> "timeout"]
Http(status, body) == [net |-> "ok", status |-> status, wellformed |-> TRUE, body |-> body]
BadJson(status)    == [net |-> "ok", status |-> status, wellformed |-> FALSE]
Ok(body) == Http(200, body)

\* "YYYY-MM-01" of the k-th month counted from January of year 0
MonthStart(k) == ((k \div 12) * 100 + (k % 12) + 1) * 100 + 1
\* the month of Today
ThisMonth == (Today.v \div 10000) * 12 + ((Today.v \div 100) % 100) - 1

\* GoldAPI answers with a JSON number, metals.live with a number or its text
Price(rv, n) == Obj([price |-> IF rv = "coincap" THEN Num(n) ELSE Str(CharsOf(n))])
Observation(d, chars) == Obj([date |-> DateStr(d), value |-> Str(chars)])
Row(d, chars) == Obj([date |-> DateStr(d), value |-> Str(chars)])
Point(dt, chars) == Obj([date |-> DateTimeStr(dt), priceUsd |-> Str(chars)])
Candle(secs, chars) ==
    Arr(<<Num(secs), Str(<<"1">>), Str(<<"2">>), Str(<<"1">>), Str(chars), Str(<<"1">>)>>)
Ticker(chars) ==
    Obj([error |-> Arr(<<>>),
         result |-> Obj([XXBTZUSD |-> Obj([c |-> Arr(<<Str(chars), Str(<<"1">>)>>)])])])
Ohlc(candles) ==
    Obj([error |-> Arr(<<>>), result |-> Obj([XXBTZUSD |-> Arr(candles), last |-> Num(0)])])
Rates(members) ==
    Obj([rates |-> Obj([c \in members |-> Num(2)]), date |-> Today])

\* days since 1970-01-01 of the date YYYYMMDD, and its midnight in unix seconds
DaysFromCivil(date) ==
    LET m   == (date \div 100) % 100
        d   == date % 100
        y   == date \div 10000 - (IF m <= 2 THEN 1 ELSE 0)
        era == y \div 400
        yoe == y - era * 400
        doy == (153 * (IF m > 2 THEN m - 3 ELSE m + 9) + 2) \div 5 + d - 1
        doe == yoe * 365 + yoe \div 4 - yoe \div 100 + doy
    IN  era * 146097 + doe - 719468
UnixOf(date) == DaysFromCivil(date) * 86400
\* the timestamp "YYYY-MM-DDT00:.." of a date
StampOf(date) == date * 100

\* the 10th of last month
LastMonth10 == Today.v - 100 - (Today.v % 100) + 10

\* one usable response of each provider
GoodBody(rv, s) ==
    CASE s \in {"gold", "silver"} -> Price(rv, 9)
      [] s = "btc" -> IF rv = "coincap" THEN Price(rv, 7) ELSE Ticker(<<"7">>)
      [] s \in {"m2Raw", "cpiRaw", "hpiRaw"} ->
             Obj([observations |->
                    Arr(<<Observation(MonthStart(ThisMonth - 1), <<"5">>),
                          Observation(MonthStart(ThisMonth - 2), <<"4">>)>>)])
      [] s \in {"goldHistAV", "cpiAV", "m2AV"} ->
             Obj([data |-> Arr(<<Row(MonthStart(ThisMonth - 1), <<"3">>)>>)])
      [] s = "btcHist" ->
             IF rv = "coincap" THEN Obj([data |-> Arr(<<Point(StampOf(LastMonth10), <<"6">>)>>)])
             ELSE Ohlc(<<Candle(UnixOf(LastMonth10), <<"6">>)>>)
      [] s = "dxyLive" -> Rates(Basket)

\* the responses of a run of Spec: the call fails or answers usably
Responses(rv, s) == {NetError, Ok(GoodBody(rv, s))}

(***************************************************************************)
(* The adapter behind each call, and the values it can settle to.          *)
(***************************************************************************)
Outcomes(rv, s, j) ==
    CASE s \in {"gold", "silver"} ->
             IF rv = "coincap" THEN {goldApiSpot(j)} ELSE {metalSpot(j)}
      [] s = "btc" -> IF rv = "coincap" THEN {goldApiSpot(j)} ELSE {krakenBtcSpot(j)}
      [] s \in {"m2Raw", "cpiRaw", "hpiRaw"} -> {fredSeries(j)}
      [] s \in {"goldHistAV", "cpiAV", "m2AV"} -> avCommodity(j)
      [] s = "btcHist" -> IF rv = "coincap" THEN {btcHistory(j)} ELSE {btcHistoryKraken(j)}
      [] s = "dxyLive" -> {dxy(j)}

(***************************************************************************)
(* Spec: the run with its calls in flight.  main launches the nine calls   *)
(* (getSpotPrices launches three of its own) and awaits them all; each     *)
(* call settles when its response arrives, in any order.  A call that      *)
(* throws rejects the Promise.all, main() rejects, and the catch handler   *)
(* of line 181 / 370 exits with code 1: these run as microtasks of the     *)
(* same turn, before any other response is handled.                        *)
(***************************************************************************)
Init ==
    /\ rev \in Revisions
    /\ today = Today
    /\ resp = [s \in Slots |-> NoResp]
    /\ got = [s \in Slots |-> Pending]
    /\ res = [s \in Slots |-> Pending]
    /\ pc = "await"
    /\ file = NoFile

\* a Promise.all that hands the FRED results over in the order they arrive
SettleByArrival(s, h) ==
    LET fred == {"m2Raw", "cpiRaw", "hpiRaw"}
        rank == [t \in fred |-> CASE t = "m2Raw" -> 1 [] t = "cpiRaw" -> 2 [] OTHER -> 3]
        free == {t \in fred : res[t] = Pending}
        to   == IF s \in fred
                THEN CHOOSE t \in free : \A u \in free : rank[t] <= rank[u]
                ELSE s
    IN  /\ pc = "await"
        /\ resp[s] = NoResp
        /\ resp' = [resp EXCEPT ![s] = h]
        /\ got' = [got EXCEPT ![s] = get(h)]
        /\ \E o \in Outcomes(rev, s, get(h)) :
              /\ res' = [res EXCEPT ![to] = o]
              /\ pc' = IF o = Raised THEN "exit1" ELSE pc
        /\ UNCHANGED <<rev, today, file>>

Settle(s, h) ==
    /\ pc = "await"
    /\ res[s] = Pending
    /\ resp' = [resp EXCEPT ![s] = h]
    /\ got' = [got EXCEPT ![s] = get(h)]
    /\ \E o \in Outcomes(rev, s, get(h)) :
          /\ res' = [res EXCEPT ![s] = o]
          /\ pc' = IF o = Raised THEN "exit1" ELSE pc
    /\ UNCHANGED <<rev, today, file>>

GoldApiSpotDone ==
    /\ rev = "coincap"
    /\ \E s \in {"gold", "silver", "btc"} : \E h \in Responses(rev, s) : Settle(s, h)

MetalSpotDone ==
    /\ rev = "kraken"
    /\ \E s \in {"gold", "silver"} : \E h \in Responses(rev, s) : Settle(s, h)

KrakenBtcSpotDone ==
    /\ rev = "kraken"
    /\ \E h \in Responses(rev, "btc") : Settle("btc", h)

FredSeriesDone ==
    \E s \in {"m2Raw", "cpiRaw", "hpiRaw"} : \E h \in Responses(rev, s) : Settle(s, h)

AvCommodityDone ==
    \E s \in {"goldHistAV", "cpiAV", "m2AV"} : \E h \in Responses(rev, s) : Settle(s, h)

BtcHistoryDone ==
    /\ rev = "coincap"
    /\ \E h \in Responses(rev, "btcHist") : Settle("btcHist", h)

BtcHistoryKrakenDone ==
    /\ rev = "kraken"
    /\ \E h \in Responses(rev, "btcHist") : Settle("btcHist", h)

DxyDone ==
    \E h \in Responses(rev, "dxyLive") : Settle("dxyLive", h)

\* the rest of main once the await resumes: merge and writeFileSync
MainMerge ==
    /\ pc = "await"
    /\ \A s \in Slots : res[s] # Pending
    /\ file' = JSONstringify(main(rev, today, res))
    /\ pc' = "done"
    /\ UNCHANGED <<rev, today, resp, got, res>>

Next ==
    \/ GoldApiSpotDone
    \/ MetalSpotDone
    \/ KrakenBtcSpotDone
    \/ FredSeriesDone
    \/ AvCommodityDone
    \/ BtcHistoryDone
    \/ BtcHistoryKrakenDone
    \/ DxyDone
    \/ MainMerge

Spec == Init /\ [][Next]_vars

(***************************************************************************)
(* The run as a function of what the providers answer: the responses are   *)
(* drawn first, MainAwait is the whole                                     *)
(* await Promise.all([...]) of main, and MainMerge follows as above.       *)
(***************************************************************************)
MainAwait ==
    /\ pc = "launch"
    /\ got' = [s \in Slots |-> get(resp[s])]
    /\ \E g \in Outcomes(rev, "goldHistAV", get(resp["goldHistAV"])),
          c \in Outcomes(rev, "cpiAV", get(resp["cpiAV"])),
          m \in Outcomes(rev, "m2AV", get(resp["m2AV"])) :
          res' = [s \in Slots |->
                    CASE s = "goldHistAV" -> g
                      [] s = "cpiAV" -> c
                      [] s = "m2AV" -> m
                      [] OTHER -> CHOOSE o \in Outcomes(rev, s, get(resp[s])) : TRUE]
    /\ pc' = IF \E s \in Slots : res'[s] = Raised THEN "exit1" ELSE "await"
    /\ UNCHANGED <<rev, today, resp, file>>

NextIn == MainAwait \/ MainMerge

\* every call fails, but for the responses given in f
Quiet == [s \in Slots |-> NetError]
With(f) == f @@ Quiet

InitIn(inputs) ==
    /\ today = Today
    /\ resp \in inputs
    /\ got = [s \in Slots |-> Pending]
    /\ res = [s \in Slots |-> Pending]
    /\ pc = "launch"
    /\ file = NoFile

(***************************************************************************)
(* Inputs of get: every transport outcome, and bodies with and without the *)
(* fields get looks at, on top of a usable body of the provider.           *)
(***************************************************************************)
Statuses == {200, 201, 299, 300, 404, 500}
NoteTexts == {Undefined, Str(<<>>), Str(<<"l", "i", "m", "i", "t">>)}
ErrorTexts == NoteTexts \cup {Num(5)}

Marked(body, note, info, err) ==
    Obj([k \in DOMAIN body.v \cup {"Note", "Information", "Error Message"} |->
            CASE k = "Note" -> note
              [] k = "Information" -> info
              [] k = "Error Message" -> err
              [] OTHER -> body.v[k]])

GetBodies(rv, s) ==
    {Null, Arr(<<>>)} \cup
    {Marked(GoodBody(rv, s), n, i, e) : n \in NoteTexts, i \in NoteTexts, e \in ErrorTexts}

GetResponses(rv, s) ==
    {NetError, TimedOut} \cup {BadJson(st) : st \in Statuses}
    \cup {Http(st, b) : st \in Statuses, b \in GetBodies(rv, s)}

GetInputs(rv) ==
    UNION {{With(s :> h) : h \in GetResponses(rv, s)} : s \in Slots}

InitGet == rev \in Revisions /\ InitIn(GetInputs(rev))
SpecGet == InitGet /\ [][NextIn]_vars

(***************************************************************************)
(* Inputs of the series adapters.  Short lists are enumerated element by   *)
(* element: any order, repeated dates, values that parse, the FRED         *)
(* missing-value mark, non-numeric text.  Long lists reach past the        *)
(* retention windows: one row a month, newest first as both providers      *)
(* list them.                                                              *)
(***************************************************************************)
SeqsUpTo(S, n) == UNION {[1..k -> S] : k \in 0..n}

EconDates == {MonthStart(ThisMonth - 2), MonthStart(ThisMonth - 1)}

FredValues == {<<"5">>, <<".">>, <<"x">>}
FredLists == SeqsUpTo({Observation(d, v) : d \in EconDates, v \in FredValues}, MaxRows)
LongFred(n) ==
    AsTuple([i \in 1..n |-> Observation(MonthStart(ThisMonth - i), CharsOf(n + 1 - i))])
FredBody(list) == Obj([observations |-> Arr(list)])

FredRich ==
    {NetError, Ok(Obj(<<>>)), Ok(Obj([observations |-> Str(<<"x">>)])),
     Ok(FredBody(<<Null>>))}
    \cup {Ok(FredBody(l)) : l \in FredLists}
    \cup {Ok(FredBody(LongFred(n))) : n \in (EconKeep - 1)..(EconKeep + MaxOver)}
FredFew ==
    {NetError, Ok(FredBody(<<>>)), Ok(FredBody(LongFred(2)))}

AvValues == {<<"3">>, <<"0">>, <<"x">>}
AvLists == SeqsUpTo({Row(d, v) : d \in EconDates, v \in AvValues}, MaxRows)
LongAv(n) ==
    AsTuple([i \in 1..n |-> Row(MonthStart(ThisMonth - i), CharsOf(n + 1 - i))])
AvBody(list) == Obj([data |-> Arr(list)])

AvRich(keep) ==
    {NetError, Ok(Obj(<<>>)), Ok(Obj([data |-> Str(<<"x">>)])), Ok(AvBody(<<Null>>))}
    \cup {Ok(AvBody(l)) : l \in AvLists}
    \cup {Ok(AvBody(LongAv(n))) : n \in (keep - 1)..(keep + MaxOver)}
AvFew ==
    {NetError, Ok(AvBody(<<>>)), Ok(AvBody(LongAv(3))), Ok(AvBody(LongAv(EconKeep + 1)))}

PairInputs(fred, av) ==
    {With((fred :> f) @@ (av :> a)) : f \in FredRich, a \in AvFew}
    \cup {With((fred :> f) @@ (av :> a)) : f \in FredFew, a \in AvRich(EconKeep)}

EconInputs(rv) ==
    PairInputs("cpiRaw", "cpiAV") \cup PairInputs("m2Raw", "m2AV")
    \cup {With("hpiRaw" :> f) : f \in FredRich}
    \cup {With("goldHistAV" :> a) : a \in AvRich(GoldHistKeep)}

InitEcon == rev \in Revisions /\ InitIn(EconInputs(rev))
SpecEcon == InitEcon /\ [][NextIn]_vars

(***************************************************************************)
(* Inputs of the bitcoin calls.  Short histories: points of last month     *)
(* (the 10th, the 20th), of yesterday and of today, in any order.  Long    *)
(* histories: one point a month, oldest first, ending today or yesterday.  *)
(***************************************************************************)
BtcDays == {LastMonth10, LastMonth10 + 10, Today.v - 1, Today.v}
BtcValues == {<<"7">>, <<"x">>}

HistEntry(rv, date, chars) ==
    IF rv = "coincap" THEN Point(StampOf(date), chars) ELSE Candle(UnixOf(date), chars)
HistBody(rv, list) ==
    IF rv = "coincap" THEN Obj([data |-> Arr(list)]) ELSE Ohlc(list)

LongHist(rv, n, lastDay) ==
    AsTuple([i \in 1..n |->
        HistEntry(rv, IF i = n THEN lastDay ELSE MonthStart(ThisMonth - n + i), CharsOf(i))])

HistRich(rv) ==
    {NetError, Ok(Obj(<<>>)), Ok(HistBody(rv, <<Null>>)),
     Ok(HistBody(rv, <<IF rv = "coincap" THEN Obj([priceUsd |-> Str(<<"7">>)])
                       ELSE Arr(<<>>)>>))}
    \cup {Ok(HistBody(rv, l)) :
            l \in SeqsUpTo({HistEntry(rv, d, v) : d \in BtcDays, v \in BtcValues}, MaxRows)}
    \cup {Ok(HistBody(rv, LongHist(rv, n, d))) :
            n \in (BtcMonths - 1)..(BtcMonths + MaxOver), d \in {Today.v - 1, Today.v}}

BtcSpots(rv) ==
    {NetError}
    \cup (IF rv = "coincap" THEN {Ok(Price(rv, 7)), Ok(Price(rv, 0))}
          ELSE {Ok(Ticker(<<"7">>)), Ok(Ticker(<<"0">>))})

BtcInputs(rv) ==
    {With(("btcHist" :> h) @@ ("btc" :> p)) : h \in HistRich(rv), p \in BtcSpots(rv)}

InitBtc == rev \in Revisions /\ InitIn(BtcInputs(rev))
SpecBtc == InitBtc /\ [][NextIn]_vars

InitSeries == rev \in Revisions /\ InitIn(EconInputs(rev) \cup BtcInputs(rev))
SpecSeries == InitSeries /\ [][NextIn]_vars

(***************************************************************************)
(* Inputs of dxy: a rate mapping with any of the six members left out.     *)
(***************************************************************************)
DxyInputs(rv) ==
    {With("dxyLive" :> h) :
        h \in {NetError, Ok(Obj([date |-> Today]))}
              \cup {Ok(Rates(m)) : m \in SUBSET Basket}
              \cup {Ok(Obj([rates |-> Obj((c :> Num(0)) @@ Rates(Basket).v.rates.v),
                            date  |-> Today])) : c \in Basket}}

InitDxy == rev \in Revisions /\ InitIn(DxyInputs(rev))
SpecDxy == InitDxy /\ [][NextIn]_vars

(***************************************************************************)
(* Claims.                                                                 *)
(***************************************************************************)
Settled == pc # "launch" /\ \A s \in Slots : res[s] # Pending

\* the transport delivered a 2xx response whose body parsed
Delivered(h) == h.net = "ok" /\ h.status >= 200 /\ h.status <= 299 /\ h.wellformed

\* the body holds a rate-limit notice or an error envelope: one of the three
\* fields with a value that is not the empty string
Marker(b, k) == b.t = "obj" /\ k \in DOMAIN b.v /\ b.v[k] \notin {Undefined, Null, Str(<<>>)}
SoftFailure(b) == Marker(b, "Note") \/ Marker(b, "Information") \/ Marker(b, "Error Message")

\* C9: get() always resolves and never rejects: it resolves to the decoded
\* body exactly for a 2xx response with a well-formed body that holds no
\* rate-limit notice (Note, Information) and no error envelope (Error
\* Message), and to null for a network failure, a timeout, a non-2xx status,
\* a malformed body and a 2xx body holding such a marker; the adapter then
\* settles to absent exactly as after a transport failure.
C9_GetResolves ==
    Settled =>
        \A s \in Slots :
            /\ got[s] # Raised
            /\ IF Delivered(resp[s]) /\ ~SoftFailure(resp[s].body)
               THEN got[s] = resp[s].body
               ELSE got[s] = Null /\ res[s] = Null

\* a 2xx, well-formed response holding only an Information notice was turned
\* into null and its adapter settled to absent
C9_Witness ==
    \E s \in Slots :
        /\ Settled
        /\ Delivered(resp[s])
        /\ Marker(resp[s].body, "Information")
        /\ ~Marker(resp[s].body, "Note")
        /\ ~Marker(resp[s].body, "Error Message")
        /\ Truthy(Get(resp[s].body, "data")) \/ Truthy(Get(resp[s].body, "rates"))
        /\ got[s] = Null
        /\ res[s] = Null

Done == pc = "done"

\* the value of a key of the written document; undefined when the key is not there
FileHas(k) == file.t = "obj" /\ k \in DOMAIN file.v
Published(k) == IF FileHas(k) THEN file.v[k] ELSE Undefined
SourceTag(m) == Get(Published("sources"), m)

\* the last n elements of s
Newest(s, n) ==
    LET k == IF Len(s) < n THEN Len(s) ELSE n
    IN  AsTuple([i \in 1..k |-> s[Len(s) - k + i]])

EconPairs ==
    {[fred |-> "cpiRaw", av |-> "cpiAV", key |-> "cpiRaw", src |-> "cpi"],
     [fred |-> "m2Raw", av |-> "m2AV", key |-> "m2Raw", src |-> "m2"]}

\* C1 as stated: for CPI and M2 the first non-absent candidate (FRED, then
\* Alpha Vantage) is published as it is, the value of the adapter being the
\* value of cpiRaw / m2Raw in the document, under the tag of that candidate.
C1_FirstCandidateAsIs ==
    Done =>
        \A p \in EconPairs :
            /\ (res[p.fred] = Null /\ res[p.av] # Null) =>
                   /\ Published(p.key) = JSONstringify(res[p.av])
                   /\ SourceTag(p.src) = Tag("alpha_vantage")
            /\ res[p.fred] # Null =>
                   /\ Published(p.key) = JSONstringify(res[p.fred])
                   /\ SourceTag(p.src) = Tag("fred")

\* C1 (amended): for CPI and M2 the document holds the last 80 points of the
\* first non-absent candidate (FRED, then Alpha Vantage), under that
\* candidate's tag, whatever the other candidate returned.
C1_FirstCandidateWins ==
    Done =>
        \A p \in EconPairs :
            /\ (res[p.fred] = Null /\ res[p.av] # Null) =>
                   /\ Published(p.key) = JSONstringify(Arr(Newest(res[p.av].v, EconKeep)))
                   /\ SourceTag(p.src) = Tag("alpha_vantage")
            /\ res[p.fred] # Null =>
                   /\ Published(p.key) = JSONstringify(Arr(Newest(res[p.fred].v, EconKeep)))
                   /\ SourceTag(p.src) = Tag("fred")

\* FRED absent for CPI, Alpha Vantage returned more than 80 points, and the
\* document holds 80 of them under the tag alpha_vantage
C1_Witness ==
    /\ Done
    /\ res["cpiRaw"] = Null
    /\ res["cpiAV"].t = "arr"
    /\ Len(res["cpiAV"].v) > EconKeep
    /\ Published("cpiRaw").t = "arr"
    /\ Len(Published("cpiRaw").v) = EconKeep
    /\ SourceTag("cpi") = Tag("alpha_vantage")

(***************************************************************************)
(* The tracked metrics: the key of the document, the entry of sources (the *)
(* gold history has none of its own) and the calls that feed the metric.   *)
(***************************************************************************)
Metrics ==
    {[key |-> "goldSilver", src |-> "gold", slots |-> {"gold", "silver"}],
     [key |-> "goldHist",   src |-> "none", slots |-> {"goldHistAV"}],
     [key |-> "btcRaw",     src |-> "btc",  slots |-> {"btcHist", "btc"}],
     [key |-> "cpiRaw",     src |-> "cpi",  slots |-> {"cpiRaw", "cpiAV"}],
     [key |-> "m2Raw",      src |-> "m2",   slots |-> {"m2Raw", "m2AV"}],
     [key |-> "hpiRaw",     src |-> "hpi",  slots |-> {"hpiRaw"}],
     [key |-> "dxyLive",    src |-> "dxy",  slots |-> {"dxyLive"}]}

\* C2 as stated: a metric all of whose candidate adapters returned absent is
\* in the written document under its key with the value null, and its entry
\* of sources is "fallback".
C2_AbsentIsNull ==
    Done =>
        \A m \in Metrics :
            (\A s \in m.slots : res[s] = Null) =>
                /\ FileHas(m.key)
                /\ Published(m.key) = Null
                /\ m.src # "none" => SourceTag(m.src) = Tag("fallback")

(***************************************************************************)
(* The provider behind each call, by the host of the URL it requests.      *)
(***************************************************************************)
Provider(rv, s) ==
    CASE s \in {"gold", "silver"} -> IF rv = "coincap" THEN "goldapi" ELSE "metals.live"
      [] s = "btc" -> IF rv = "coincap" THEN "goldapi" ELSE "kraken"
      [] s = "btcHist" -> IF rv = "coincap" THEN "coincap" ELSE "kraken"
      [] s \in {"m2Raw", "cpiRaw", "hpiRaw"} -> "fred"
      [] s \in {"goldHistAV", "cpiAV", "m2AV"} -> "alpha_vantage"
      [] s = "dxyLive" -> "frankfurter"

\* the calls whose data is in the published value of a metric
Suppliers(m) ==
    CASE m.key \in {"cpiRaw", "m2Raw"} ->
             LET fred == CHOOSE s \in m.slots : Provider(rev, s) = "fred"
             IN  IF Truthy(res[fred]) THEN {fred} ELSE m.slots \ {fred}
      [] OTHER -> {s \in m.slots : Truthy(res[s])}

\* C3 as stated: sources has exactly the entries gold, btc, cpi, m2, hpi, dxy;
\* an entry is "fallback" exactly when the metric's published value is null
\* or absent, and otherwise names the provider whose adapter supplied the
\* published data in this run.
C3_SourcesNameSupplier ==
    Done =>
        /\ DOMAIN Published("sources").v = {"gold", "btc", "cpi", "m2", "hpi", "dxy"}
        /\ \A m \in {x \in Metrics : x.src # "none"} :
              /\ SourceTag(m.src) = Tag("fallback") <=> Published(m.key) \in {Null, Undefined}
              /\ SourceTag(m.src) # Tag("fallback") =>
                    \A s \in Suppliers(m) : SourceTag(m.src) = Tag(Provider(rev, s))

\* the history points dated before the current date, in their order
BeforeToday(hist) ==
    SelectIdx(hist, {i \in 1..Len(hist) : StrLess(DateOf(hist[i]), today)})
SpotPoint == Obj([date |-> today, value |-> res["btc"]])
DatedToday(s) == {i \in 1..Len(s) : DateOf(s[i]) = today}

\* C4 as stated: for a history series and a present spot price the published
\* btcRaw is every history point dated before the current date, unchanged and
\* in order, followed by one point at the current date with the spot value.
C4_SpliceKeepsHistory ==
    (Done /\ res["btcHist"].t = "arr" /\ res["btc"] # Null) =>
        LET pub == Published("btcRaw")
        IN  /\ pub = JSONstringify(Arr(BeforeToday(res["btcHist"].v) \o <<SpotPoint>>))
            /\ Cardinality(DatedToday(pub.v)) = 1

\* C4 (amended): for a history series and a present spot price other than 0,
\* the published btcRaw is the last 60 points of: the history points dated
\* before the current date, unchanged and in order, followed by the point at
\* the current date with the spot value; exactly one point is dated the
\* current date and it is the last one.
C4_SpliceWithinWindow ==
    (Done /\ res["btcHist"].t = "arr" /\ Truthy(res["btc"])) =>
        LET pub == Published("btcRaw")
        IN  /\ pub = JSONstringify(Arr(Newest(BeforeToday(res["btcHist"].v) \o <<SpotPoint>>,
                                              BtcKeep)))
            /\ DatedToday(pub.v) = {Len(pub.v)}
            /\ pub.v[Len(pub.v)] = JSONstringify(SpotPoint)

\* a history of 60 points before the current date and a spot price: the
\* document holds 60 points, the oldest history point is not among them
C4_Witness ==
    /\ Done
    /\ res["btcHist"].t = "arr"
    /\ Truthy(res["btc"])
    /\ Len(BeforeToday(res["btcHist"].v)) = BtcKeep
    /\ Len(Published("btcRaw").v) = BtcKeep
    /\ Published("btcRaw").v[1] = JSONstringify(res["btcHist"].v[2])
    /\ Published("btcRaw").v[BtcKeep] = JSONstringify(SpotPoint)

SeriesKeys == {"goldHist", "btcRaw", "cpiRaw", "m2Raw", "hpiRaw"}
StrictlyAscending(s) ==
    \A i \in 1..(Len(s) - 1) : StrLess(DateOf(s[i]), DateOf(s[i + 1]))

\* C5 as stated: every series of the written document is strictly ascending
\* by date, whatever the order of the provider's observations or rows and
\* whether or not a date is repeated among them.
C5_SeriesStrictlyAscending ==
    Done =>
        \A k \in SeriesKeys :
            Published(k).t = "arr" => StrictlyAscending(Published(k).v)

(***************************************************************************)
(* The points the history provider listed, as handed to btcHistory.        *)
(***************************************************************************)
Listed ==
    IF rev = "coincap" THEN Get(got["btcHist"], "data")
    ELSE Get(Get(got["btcHist"], "result"), "XXBTZUSD")
DayOf(e) ==
    IF rev = "coincap" THEN Slice10(Get(e, "date"))
    ELSE UnixToDate(TimeOf(Index(e, 0)))
PointOf(e) ==
    Obj([date  |-> DayOf(e),
         value |-> parseFloat(IF rev = "coincap" THEN Get(e, "priceUsd") ELSE Index(e, 4))])
\* the n greatest elements of a set of months
Latest(months, n) ==
    {m \in months : Cardinality({l \in months : l.v > m.v}) < n}

\* C6 as stated: the result of btcHistory has exactly one point for each of
\* the (at most 60) most recent months of the listed points, that point is a
\* listed point of the month with the latest date of the month, and the
\* result is ascending by date, in whatever order the points are listed.
C6_LatestOfMonth ==
    (Settled /\ res["btcHist"].t = "arr") =>
        LET in     == Listed.v
            out    == res["btcHist"].v
            months == {Slice7(DayOf(in[i])) : i \in 1..Len(in)}
        IN  /\ \A m \in Latest(months, BtcMonths) :
                   Cardinality({k \in 1..Len(out) : Slice7(DateOf(out[k])) = m}) = 1
            /\ \A k \in 1..Len(out) :
                   /\ Slice7(DateOf(out[k])) \in Latest(months, BtcMonths)
                   /\ \E i \in 1..Len(in) :
                          /\ out[k] = PointOf(in[i])
                          /\ \A l \in 1..Len(in) :
                                 Slice7(DayOf(in[l])) = Slice7(DayOf(in[i]))
                                     => ~StrLess(DayOf(in[i]), DayOf(in[l]))
            /\ StrictlyAscending(out)

\* C7 as stated: no adapter raises, whatever the decoded body; the run never
\* ends without merging and writing the document.
C7_NoAdapterRaises ==
    /\ \A s \in Slots : res[s] # Raised
    /\ pc # "exit1"

\* C8 as stated: when the rate mapping lacks a member of the basket, dxy
\* returns absent, the document's dxyLive is null and sources.dxy "fallback".
C8_BasketComplete ==
    LET rates == Get(got["dxyLive"], "rates")
    IN  (Settled /\ rates.t = "obj" /\ \E c \in Basket : c \notin DOMAIN rates.v) =>
            /\ res["dxyLive"] = Null
            /\ Done => Published("dxyLive") = Null /\ SourceTag("dxy") = Tag("fallback")

\* C10 as stated: every point of every series of the written document has a
\* finite number as its value.
C10_FiniteValues ==
    Done =>
        \A k \in SeriesKeys :
            Published(k).t = "arr" =>
                \A i \in 1..Len(Published(k).v) :
                    Get(Published(k).v[i], "value").t = "num"

\* what each call settles to, given the response it received alone
OwnResult(s) == CHOOSE o \in Outcomes(rev, s, get(resp[s])) : TRUE

\* C11: the content of the written document depends only on the results of
\* the calls and on the current date, not on the order in which the calls
\* completed: the merge runs only after every call has completed, every
\* call's result is the result of its own adapter on its own response,
\* whatever the other calls returned and whenever they completed, and the
\* document is the merge of exactly these results.
C11_OrderIndependent ==
    /\ (file # NoFile \/ pc = "done") => \A s \in Slots : res[s] # Pending
    /\ \A s \in Slots :
          IF resp[s] = NoResp THEN res[s] = Pending
          ELSE res[s] \in Outcomes(rev, s, get(resp[s]))
    /\ pc = "done" => file = JSONstringify(main(rev, today, [s \in Slots |-> OwnResult(s)]))

\* a written document of a run in which FRED failed for CPI only: cpiRaw
\* comes from Alpha Vantage, m2Raw and hpiRaw from FRED, the bitcoin series
\* is the history with the spot point spliced on
C11_Witness ==
    /\ pc = "done"
    /\ resp["cpiRaw"] = NetError
    /\ \A s \in Slots \ {"cpiRaw"} : resp[s] = Ok(GoodBody(rev, s))
    /\ SourceTag("cpi") = Tag("alpha_vantage")
    /\ SourceTag("m2") = Tag("fred")
    /\ Published("m2Raw") = JSONstringify(res["m2Raw"])
    /\ Published("cpiRaw") = JSONstringify(res["cpiAV"])
    /\ Len(Published("btcRaw").v) = 2

====
